---- MODULE Spec2Model ----
(***************************************************************************)
(* Model of meltr's Reader (src/src/Reader.cpp): the chunked melt loop     *)
(* that turns a token stream into a long (row, col, data_type, value)      *)
(* table, its collectors, its warning set and the driver that calls        *)
(* meltToDataFrame until the input is exhausted.                           *)
(*                                                                         *)
(* The tokenizer, the collectors, the type guess and the warning sink are  *)
(* collaborators whose code is not part of Reader.cpp; they are modelled   *)
(* from their contracts.  The progress bar (lines 106-108, 146-150) only   *)
(* draws and is left out.  The growth estimate of line 117 is computed in  *)
(* exact rational arithmetic.                                              *)
(***************************************************************************)
EXTENDS Integers, Sequences, FiniteSets, TLC

(* ------------------------------ bounds --------------------------------- *)

\* Largest number of rows of a modelled source.
MaxRows == 3

(* ------------------------- program constants --------------------------- *)

\* "Start with 10 cells per line" (line 87).
CellsPerLine == 10
\* Initial capacity of an unbounded melt (line 87).
DefaultCapacity == 10000
\* The value melt returns when the pending token is already END (line 84).
EndOfInput == -1
\* last_row before any token was written (line 91).
NoRow == -1
\* What R pads a lengthened integer vector with.
NA_INTEGER == (-2147483647) - 1
\* What R pads a lengthened character vector with; also the value of a
\* MISSING token.
NA_STRING == "NA_character_"

(* ------------------------------ inputs --------------------------------- *)

\* Row lengths of the modelled sources: a short row, a row one cell short of
\* the initial capacity of a one-line chunk, and a row that overflows it.
RowLens == {2, CellsPerLine - 1, CellsPerLine + 1}
\* Row number of the first token the tokenizer produces.
FirstRows == {0, 1}
\* The maxLines arguments the driver passes: unbounded, or k >= 1.
Lines == {-1, 1, 2}
\* The drivers: one that passes the same maxLines on every call, for each
\* value, and one that may pass a different value on every call.
Drivers == {{l} : l \in Lines} \cup {Lines}
\* Consumed fractions <<p, q>> = p/q in (0, 1] the tokenizer may report.
Fractions == {<<1, 2>>, <<1, 1>>}
\* The modelled sources <<kp, wp>>: kp rotates the three token kinds over
\* the cells, wp = 1 makes the source raise warnings.
Styles == {<<0, 0>>, <<1, 1>>}

Kinds == <<"STRING", "MISSING", "EMPTY">>

RECURSIVE Sum(_)
Sum(s) == IF s = <<>> THEN 0 ELSE Head(s) + Sum(Tail(s))

\* Zero-based <<row offset, col>> of the i-th cell of a source whose rows
\* have the lengths lens.
RECURSIVE Locate(_, _, _)
Locate(lens, i, r) ==
  IF i <= Head(lens) THEN <<r, i - 1>>
  ELSE Locate(Tail(lens), i - Head(lens), r + 1)

\* All sequences over S of length 0..k.
RECURSIVE SeqsUpTo(_, _)
SeqsUpTo(S, k) ==
  IF k = 0 THEN {<<>>}
  ELSE LET shorter == SeqsUpTo(S, k - 1)
       IN shorter \cup {Append(s, x) : s \in {q \in shorter : Len(q) = k - 1}, x \in S}

\* The END token the tokenizer returns once the source is exhausted.
EofToken(row, i) ==
  [type |-> "EOF", row |-> row, col |-> 0, text |-> "", warn |-> "none", id |-> i]

\* The token stream of a source: row-major, left to right, closed by END.
\* A token carries where it is (row, col), its kind, its text, and whether
\* fetching it ("tok") or collecting it ("col") raises a warning.
TokenStream(first, lens, kp, wp) ==
  LET total == Sum(lens)
      cell(i) ==
        LET rc == Locate(lens, i, 0)
            kind == Kinds[((i + kp) % 3) + 1]
        IN [type |-> kind,
            row  |-> first + rc[1],
            col  |-> rc[2],
            text |-> IF kind = "STRING"
                       THEN (IF rc[2] % 2 = 0 THEN "12" ELSE "abc")
                       ELSE "",
            warn |-> IF wp = 0 THEN "none"
                     ELSE IF rc[2] = 0 THEN "tok"
                     ELSE IF rc[2] = 1 THEN "col"
                     ELSE "none",
            id   |-> i]
  IN [i \in 1..(total + 1) |->
        IF i <= total THEN cell(i) ELSE EofToken(first + Len(lens), i)]

(* ------------------------------- state --------------------------------- *)

VARIABLES
  tokens,       \* tokenizer_: the token stream of the source
  pos,          \* tokenizer_: number of tokens handed out by nextToken
  chunk,        \* the maxLines values the driver may pass
  t_,           \* Reader::t_, the pending token
  begun_,       \* Reader::begun_
  collectors_,  \* Reader::collectors_, four columns
  warnings_,    \* Reader::warnings_
  pc,           \* where the current meltToDataFrame call is
  lines,        \* melt's argument
  n,            \* melt's local n
  cells,        \* melt's local cells
  first_row,    \* melt's local first_row
  last_row,     \* melt's local last_row
  ret,          \* what the last melt returned
  path,         \* how the last melt returned: "early", "normal" or "none"
  out,          \* the table the last meltToDataFrame returned
  chunkStart,   \* id of the first token the current invocation may write
  melted,       \* the rows of all tables returned so far, concatenated
  raised,       \* every warning raised so far
  attached,     \* every warning attached to a returned table so far
  raisedAtCall, \* Len(raised) when the current invocation started
  begunAtCall,  \* begun_ when the current invocation started
  written,      \* number of cells written by all invocations so far
  grows,        \* number of growth resizes of the current invocation
  accurate,     \* every fraction reported to the current invocation was exact
  ipc,          \* where the constructor is
  j_,           \* Reader::init's loop index j
  skip,         \* collectors_[j]->skip(), per collector
  colNames,     \* the constructor's argument colNames
  keptColumns_, \* Reader::keptColumns_
  outNames_,    \* Reader::outNames_
  tokenizerWarned, \* setWarnings was called on the tokenizer
  collectorWarned  \* the collectors setWarnings was called on

\* What the melt works on.
meltVars == <<tokens, pos, chunk, t_, begun_, collectors_, warnings_, pc, lines, n,
              cells, first_row, last_row, ret, path, out, chunkStart, melted,
              raised, attached, raisedAtCall, begunAtCall, written, grows, accurate>>

\* What the constructor sets up.
ctorVars == <<ipc, j_, skip, colNames, keptColumns_, outNames_, tokenizerWarned,
              collectorWarned>>

vars == <<meltVars, ctorVars>>

(* ----------------------------- tokenizer ------------------------------- *)

\* Tokenizer::nextToken: the next token of the stream; END again once the
\* stream is exhausted.
nextToken(p) ==
  IF p < Len(tokens) THEN tokens[p + 1] ELSE tokens[Len(tokens)]

\* Tokenizer::progress().first of a tokenizer that reports exactly: the
\* share of the source's cells handed out so far, as <<p, q>> = p/q.
Progress(p) == <<p, Len(tokens) - 1>>

\* The fractions the tokenizer may report after handing out p tokens: the
\* exact one, or any of Fractions.
ReportedFractions(p) == Fractions \cup {Progress(p)}

\* The reported fraction is the exact one.
IsExact(frac, p) == frac[1] * (Len(tokens) - 1) = frac[2] * p

\* The warning a token raises, as the sink records it.
Warning(t) == [row |-> t.row, col |-> t.col, tok |-> t.id]

\* Warnings the tokenizer adds while producing token t.
TokenizerWarnings(t) == IF t.warn = "tok" THEN <<Warning(t)>> ELSE <<>>

\* Warnings the value collector adds while storing token t.
CollectorWarnings(t) == IF t.warn = "col" THEN <<Warning(t)>> ELSE <<>>

(* ----------------------------- collectors ------------------------------ *)

\* A collector is its capacity n, the cells written so far (a prefix v of
\* the column) and whether a write ever fell outside the capacity.
EmptyCollector == [n |-> 0, v |-> <<>>, oob |-> FALSE]

Min(a, b) == IF a < b THEN a ELSE b

\* Collector::resize: grow or shrink, keeping the written prefix.
Resize(c, size) ==
  [c EXCEPT !.n = size, !.v = SubSeq(c.v, 1, Min(Len(c.v), size))]

\* Reader::collectorsResize.
collectorsResize(cs, size) == [j \in DOMAIN cs |-> Resize(cs[j], size)]

\* The collectors left as they are.
collectorsClear_Skip(cs) == cs

\* Reader::collectorsClear.
collectorsClear(cs) == [j \in DOMAIN cs |-> Resize(cs[j], 0)]

\* Collector::setValue(i, x), i zero-based; pad is what unwritten cells hold.
SetValue(c, i, x, pad) ==
  IF i >= c.n THEN [c EXCEPT !.oob = TRUE]
  ELSE IF i < Len(c.v) THEN [c EXCEPT !.v[i + 1] = x]
  ELSE [c EXCEPT !.v = c.v \o [k \in 1..(i - Len(c.v)) |-> pad] \o <<x>>]

\* Collector::vector: the column of length n, unwritten cells padded.
Vector(c, pad) == [i \in 1..c.n |-> IF i <= Len(c.v) THEN c.v[i] ELSE pad]

(* ------------------------- melt: pure helpers -------------------------- *)

\* collectorGuess(text, locale, true): the guessed type of a string.
collectorGuess(text) == IF text = "12" THEN "integer" ELSE "character"

\* What the value collector stores for a token.
TokenValue(t) ==
  IF t.type = "STRING" THEN t.text
  ELSE IF t.type = "MISSING" THEN NA_STRING
  ELSE ""

\* The switch with the MISSING and EMPTY branches exchanged.
DataType_Swapped(t) ==
  CASE t.type = "STRING"  -> collectorGuess(t.text)
    [] t.type = "MISSING" -> "empty"
    [] t.type = "EMPTY"   -> "missing"
    [] OTHER              -> "Invalid token"

\* The switch of lines 125-140: the data_type cell of a token.
DataType(t) ==
  CASE t.type = "STRING"  -> collectorGuess(t.text)
    [] t.type = "MISSING" -> "missing"
    [] t.type = "EMPTY"   -> "empty"
    [] OTHER              -> "Invalid token"

\* Line 87: the initial capacity.
InitialCapacity(l) == IF l < 0 THEN DefaultCapacity ELSE l * CellsPerLine

\* The baseline never moved to the pending token's row.
FirstRow_Zero(begun, t) == 0

\* Lines 95-101: the row the chunk's line count is measured from.
FirstRow(begun, t) == IF ~begun THEN 0 ELSE t.row

\* The begun_ flag ignored: every call fetches a token first.
NotBegun_Always(begun) == TRUE

\* Line 95: the test for the very first call.
NotBegun(begun) == ~begun

\* The growth test two cells late.
NeedsGrowth_Late(c, cap) == c > cap + 1

\* Line 115: the growth test, on the cell count c and the capacity cap.
NeedsGrowth(c, cap) == c >= cap

\* Line 110: the chunk-boundary check.
AtChunkBoundary(l, t, first) == l >= 0 /\ t.row - first >= l

\* The estimate divided by 1.1 instead of multiplied.
Estimate_Divided(c, frac) == (c * frac[2] * 10) \div (frac[1] * 11)

\* The estimate without the 10% margin.
Estimate_NoMargin(c, frac) == (c * frac[2]) \div frac[1]

\* Line 117: n = (cells / progress().first) * 1.1, truncated.
Estimate(c, frac) == (c * frac[2] * 11) \div (frac[1] * 10)

\* Lines 154-158: the capacity the collectors are left with.
FinalCollectors(cs, last, c, cap) ==
  IF last = NoRow THEN collectorsResize(cs, 0)
  ELSE IF c < cap - 1 THEN collectorsResize(cs, c)
  ELSE cs

\* Line 160: the value melt returns after the loop.
ReturnValue(c) == c - 1

\* The early-exit test left out.
EarlyExit_Never(t) == FALSE

\* Line 83: the early-exit test.
EarlyExit(t) == t.type = "EOF"

\* A loop that does not stop at END.
LoopCondition_Always(t) == TRUE

\* Line 103: the loop condition.
LoopCondition(t) == t.type # "EOF"

\* The warnings kept after they were attached.
warningsClear_Kept(w) == w

\* Line 73: warnings_.clear().
warningsClear(w) == <<>>

\* Lines 63-69: the four columns as a table, one record per row.
Table(cs) ==
  LET rowv == Vector(cs[0], NA_INTEGER)
      colv == Vector(cs[1], NA_INTEGER)
      typv == Vector(cs[2], NA_STRING)
      valv == Vector(cs[3], NA_STRING)
  IN [i \in 1..cs[0].n |->
        [row |-> rowv[i], col |-> colv[i], data_type |-> typv[i], value |-> valv[i]]]

(* ------------------------------- Init ---------------------------------- *)

\* The token streams of the modelled sources.
Sources ==
  {TokenStream(first, lens, style[1], style[2]) :
     first \in FirstRows, lens \in SeqsUpTo(RowLens, MaxRows), style \in Styles}

\* The melt's collectors: row, col, data_type, value (lines 64-67).
NumCollectors == 4
Collectors == 0..(NumCollectors - 1)

\* The members the constructor's initializer list leaves fresh (lines 15-19):
\* no token is fetched, begun_ is false, the collectors are empty and there
\* are no warnings.  t_ is a default-constructed Token (an EMPTY token at
\* row 0, column 0).  The history variables start empty.
FreshFields ==
  /\ pos = 0
  /\ t_ = [type |-> "EMPTY", row |-> 0, col |-> 0, text |-> "", warn |-> "none", id |-> 0]
  /\ begun_ = FALSE
  /\ collectors_ = [j \in Collectors |-> EmptyCollector]
  /\ warnings_ = <<>>
  /\ pc = "idle"
  /\ lines = 0
  /\ n = 0
  /\ cells = 0
  /\ first_row = 0
  /\ last_row = NoRow
  /\ ret = 0
  /\ path = "none"
  /\ out = [rows |-> <<>>, problems |-> <<>>]
  /\ chunkStart = 0
  /\ melted = <<>>
  /\ raised = <<>>
  /\ attached = <<>>
  /\ raisedAtCall = 0
  /\ begunAtCall = FALSE
  /\ written = 0
  /\ grows = 0
  /\ accurate = TRUE

\* The Reader after construction (lines 9-44) with four kept collectors and
\* no column names.
Init ==
  /\ tokens \in Sources
  /\ chunk \in Drivers
  /\ ipc = "constructed"
  /\ j_ = NumCollectors
  /\ skip = [j \in Collectors |-> FALSE]
  /\ colNames = <<>>
  /\ keptColumns_ = <<0, 1, 2, 3>>
  /\ outNames_ = <<>>
  /\ tokenizerWarned = TRUE
  /\ collectorWarned = Collectors
  /\ FreshFields

(* ------------------------------ actions -------------------------------- *)

\* The maxLines values the driver may pass on its next call.
DriverLines == chunk

\* meltToDataFrame calls melt, whose pending token is already END
\* (lines 60, 83-85).
MeltEarlyExit ==
  /\ pc = "idle"
  /\ EarlyExit(t_)
  /\ \E l \in DriverLines : lines' = l
  /\ ret' = EndOfInput
  /\ path' = "early"
  /\ pc' = "returned"
  /\ raisedAtCall' = Len(raised)
  /\ begunAtCall' = begun_
  /\ UNCHANGED <<tokens, pos, chunk, t_, begun_, collectors_, warnings_, n, cells,
                 first_row, last_row, out, chunkStart, melted, raised, attached,
                 written, grows, accurate>>
  /\ UNCHANGED ctorVars

\* meltToDataFrame calls melt, which sizes the collectors and, on the very
\* first call, fetches the first token (lines 60, 83-101).
MeltBegin ==
  /\ pc = "idle"
  /\ ~EarlyExit(t_)
  /\ \E l \in DriverLines :
       /\ lines' = l
       /\ n' = InitialCapacity(l)
       /\ collectors_' = collectorsResize(collectors_, InitialCapacity(l))
  /\ last_row' = NoRow
  /\ cells' = 0
  /\ first_row' = FirstRow(begun_, t_)
  /\ IF NotBegun(begun_)
       THEN /\ t_' = nextToken(pos)
            /\ pos' = pos + 1
            /\ warnings_' = warnings_ \o TokenizerWarnings(nextToken(pos))
            /\ raised' = raised \o TokenizerWarnings(nextToken(pos))
            /\ chunkStart' = nextToken(pos).id
       ELSE /\ chunkStart' = t_.id
            /\ UNCHANGED <<t_, pos, warnings_, raised>>
  /\ begun_' = TRUE
  /\ raisedAtCall' = Len(raised)
  /\ begunAtCall' = begun_
  /\ grows' = 0
  /\ accurate' = TRUE
  /\ path' = "none"
  /\ pc' = "loop"
  /\ UNCHANGED <<tokens, chunk, ret, out, melted, attached, written>>
  /\ UNCHANGED ctorVars

\* The loop condition fails: the pending token is END (line 103).
LoopExit ==
  /\ pc = "loop"
  /\ ~LoopCondition(t_)
  /\ pc' = "finalize"
  /\ UNCHANGED <<tokens, pos, chunk, t_, begun_, collectors_, warnings_, lines, n,
                 cells, first_row, last_row, ret, path, out, chunkStart, melted,
                 raised, attached, raisedAtCall, begunAtCall, written, grows,
                 accurate>>
  /\ UNCHANGED ctorVars

\* The chunk boundary is reached: ++cells, --cells, break (lines 104-113).
LoopBreak ==
  /\ pc = "loop"
  /\ LoopCondition(t_)
  /\ AtChunkBoundary(lines, t_, first_row)
  /\ pc' = "finalize"
  /\ UNCHANGED <<tokens, pos, chunk, t_, begun_, collectors_, warnings_, lines, n,
                 cells, first_row, last_row, ret, path, out, chunkStart, melted,
                 raised, attached, raisedAtCall, begunAtCall, written, grows,
                 accurate>>
  /\ UNCHANGED ctorVars

\* The four writes of one token into collectors of capacity cap, at index
\* c - 1 (lines 121-140).
WriteToken(cs, c, t) ==
  [j \in DOMAIN cs |->
     CASE j = 0 -> SetValue(cs[0], c - 1, t.row + 1, NA_INTEGER)
       [] j = 1 -> SetValue(cs[1], c - 1, t.col + 1, NA_INTEGER)
       [] j = 2 -> SetValue(cs[2], c - 1, DataType(t), NA_STRING)
       [] j = 3 -> SetValue(cs[3], c - 1, TokenValue(t), NA_STRING)]

\* One iteration that writes the pending token and fetches the next
\* (lines 104-143): grow when cells >= n, by the estimate from the fraction
\* the tokenizer reports, then write, then nextToken.
LoopBody ==
  /\ pc = "loop"
  /\ LoopCondition(t_)
  /\ ~AtChunkBoundary(lines, t_, first_row)
  /\ cells' = cells + 1
  /\ IF NeedsGrowth(cells + 1, n)
       THEN \E frac \in ReportedFractions(pos) :
              /\ n' = Estimate(cells + 1, frac)
              /\ collectors_' =
                   WriteToken(collectorsResize(collectors_, Estimate(cells + 1, frac)),
                              cells + 1, t_)
              /\ grows' = grows + 1
              /\ accurate' = (accurate /\ IsExact(frac, pos))
       ELSE /\ n' = n
            /\ collectors_' = WriteToken(collectors_, cells + 1, t_)
            /\ UNCHANGED <<grows, accurate>>
  /\ written' = written + 1
  /\ last_row' = t_.row
  /\ t_' = nextToken(pos)
  /\ pos' = pos + 1
  /\ warnings_' = warnings_ \o CollectorWarnings(t_) \o TokenizerWarnings(nextToken(pos))
  /\ raised' = raised \o CollectorWarnings(t_) \o TokenizerWarnings(nextToken(pos))
  /\ UNCHANGED <<tokens, chunk, begun_, pc, lines, first_row, ret, path, out,
                 chunkStart, melted, attached, raisedAtCall, begunAtCall>>
  /\ UNCHANGED ctorVars

\* After the loop: trim the collectors and return (lines 146-160).
Finalize ==
  /\ pc = "finalize"
  /\ collectors_' = FinalCollectors(collectors_, last_row, cells, n)
  /\ ret' = ReturnValue(cells)
  /\ path' = "normal"
  /\ pc' = "returned"
  /\ UNCHANGED <<tokens, pos, chunk, t_, begun_, warnings_, lines, n, cells,
                 first_row, last_row, out, chunkStart, melted, raised, attached,
                 raisedAtCall, begunAtCall, written, grows, accurate>>
  /\ UNCHANGED ctorVars

\* The rest of meltToDataFrame (lines 62-78): the columns become the table,
\* the warnings are attached to it, collectors and warnings are cleared.
ToDataFrame ==
  /\ pc = "returned"
  /\ out' = [rows |-> Table(collectors_), problems |-> warnings_]
  /\ melted' = melted \o Table(collectors_)
  /\ attached' = attached \o warnings_
  /\ collectors_' = collectorsClear(collectors_)
  /\ warnings_' = warningsClear(warnings_)
  /\ pc' = "idle"
  /\ lines' = 0
  /\ n' = 0
  /\ cells' = 0
  /\ first_row' = 0
  /\ last_row' = NoRow
  /\ grows' = 0
  /\ accurate' = TRUE
  /\ UNCHANGED <<tokens, pos, chunk, t_, begun_, ret, path, chunkStart, raised,
                 raisedAtCall, begunAtCall, written>>
  /\ UNCHANGED ctorVars

Next ==
  \/ MeltEarlyExit
  \/ MeltBegin
  \/ LoopExit
  \/ LoopBreak
  \/ LoopBody
  \/ Finalize
  \/ ToDataFrame

Spec == Init /\ [][Next]_vars

\* Single-threaded: a call that has started runs to its return, and the
\* driver keeps calling.
FairSpec == Spec /\ WF_vars(Next)

(* ---------------------------- construction ---------------------------- *)

\* The skip flags of the collectors handed to the constructor.
SkipFlags == [Collectors -> BOOLEAN]

\* The colNames argument: none, or one name per collector.
ColNames == {<<>>, <<"a", "b", "c", "d">>}

\* The column is kept without looking at its skip flag.
KeepsColumn_All(sk, j) == TRUE

\* Line 31: the column of collector j is kept.
KeepsColumn(sk, j) == ~sk[j]

\* Lines 38-42: the names of the kept columns, in the order of kept.
KeptNames(names, kept) == [i \in 1..Len(kept) |-> names[kept[i] + 1]]

\* Entry of the constructor (lines 9-19): the arguments are given, the
\* initializer list has run, init has not.
CtorInit ==
  /\ tokens = <<>>
  /\ chunk \in Drivers
  /\ FreshFields
  /\ ipc = "init"
  /\ j_ = 0
  /\ skip \in SkipFlags
  /\ colNames \in ColNames
  /\ keptColumns_ = <<>>
  /\ outNames_ = <<>>
  /\ tokenizerWarned = FALSE
  /\ collectorWarned = {}

\* Lines 24-25: tokenize the source, hand the warnings to the tokenizer.
CtorTokenize ==
  /\ ipc = "init"
  /\ tokens' \in Sources
  /\ tokenizerWarned' = TRUE
  /\ j_' = 0
  /\ ipc' = "columns"
  /\ UNCHANGED <<pos, chunk, t_, begun_, collectors_, warnings_, pc, lines, n,
                 cells, first_row, last_row, ret, path, out, chunkStart, melted,
                 raised, attached, raisedAtCall, begunAtCall, written, grows,
                 accurate>>
  /\ UNCHANGED <<skip, colNames, keptColumns_, outNames_, collectorWarned>>

\* Lines 30-35: one iteration of the loop over the collectors.
CtorColumn ==
  /\ ipc = "columns"
  /\ j_ < NumCollectors
  /\ IF KeepsColumn(skip, j_)
       THEN /\ keptColumns_' = Append(keptColumns_, j_)
            /\ collectorWarned' = collectorWarned \cup {j_}
       ELSE UNCHANGED <<keptColumns_, collectorWarned>>
  /\ j_' = j_ + 1
  /\ UNCHANGED <<ipc, skip, colNames, outNames_, tokenizerWarned>>
  /\ UNCHANGED meltVars

\* Lines 37-43: after the loop, the names of the kept columns.
CtorNames ==
  /\ ipc = "columns"
  /\ j_ = NumCollectors
  /\ outNames_' = IF Len(colNames) > 0 THEN KeptNames(colNames, keptColumns_)
                                        ELSE outNames_
  /\ ipc' = "constructed"
  /\ UNCHANGED <<j_, skip, colNames, keptColumns_, tokenizerWarned, collectorWarned>>
  /\ UNCHANGED meltVars

CtorNext ==
  \/ CtorTokenize
  \/ CtorColumn
  \/ CtorNames

\* The constructor alone, from its entry to its return.
CtorSpec == CtorInit /\ [][CtorNext]_vars

\* A Reader constructed with four kept collectors and no names is in a
\* state the melt starts from.
ConstructedIsInit ==
  (ipc = "constructed" /\ colNames = <<>> /\ \A j \in Collectors : ~skip[j]) => Init

(* ------------------------- reference results --------------------------- *)

\* The row the table holds for token t.
RowOf(t) ==
  [row |-> t.row + 1, col |-> t.col + 1, data_type |-> DataType(t),
   value |-> TokenValue(t)]

\* One row per non-END token of the stream, in stream order.
RowsOf(ts) == [i \in 1..(Len(ts) - 1) |-> RowOf(ts[i])]

\* The driver passes the same maxLines on every call.
Uniform == Cardinality(chunk) = 1

\* The driver has seen the end-of-input signal.
Done == pc = "idle" /\ path = "early"

\* An unbounded melt of the modelled sources returns one row per non-END
\* token (the sources are shorter than DefaultCapacity - 1 cells).
UnboundedMeltRows == (Done /\ chunk = {-1}) => melted = RowsOf(tokens)

\* The tokens a chunk of maxLines = lines starting at token chunkStart
\* covers: those whose row is less than lines rows after that token's row.
ChunkTokens ==
  {i \in chunkStart..(Len(tokens) - 1) :
     tokens[i].row - tokens[chunkStart].row < lines}

(* ------------------------------- claims -------------------------------- *)

\* C1: for every chunk size k >= 1, melting with maxLines = k until
\* end-of-input and concatenating the tables gives exactly the rows of one
\* unbounded melt of the same stream (which are RowsOf(tokens), see
\* UnboundedMeltRows).
C1_ChunkedEqualsUnbounded == (Done /\ Uniform) => melted = RowsOf(tokens)

\* C2: after the finalize step of an invocation that entered the loop, the
\* capacity of every collector equals the number of cells written in that
\* invocation (zero when none was written): no slack row.
C2_CapacityIsCellsWritten ==
  (pc = "returned" /\ path = "normal") =>
    \A j \in DOMAIN collectors_ :
      collectors_[j].n = cells /\ Len(collectors_[j].v) = cells

\* C3: a bounded invocation with maxLines = k writes exactly the tokens
\* whose row minus firstRow is < k, firstRow being the row of the first
\* token of the chunk (the first token fetched, or the pending token); the
\* first token beyond them stays pending and no further token is fetched.
C3_BoundedChunk ==
  (pc = "returned" /\ path = "normal" /\ lines >= 1) =>
    LET k == Cardinality(ChunkTokens)
    IN /\ cells = k
       /\ collectors_[0].v = [i \in 1..k |-> tokens[chunkStart + i - 1].row + 1]
       /\ collectors_[1].v = [i \in 1..k |-> tokens[chunkStart + i - 1].col + 1]
       /\ t_ = tokens[chunkStart + k]
       /\ pos = chunkStart + k

\* C4: an invocation that does not take the early exit returns the number
\* of cells it wrote into the collectors.
C4_ReturnsCellsWritten ==
  (pc = "returned" /\ path = "normal") =>
    ret = cells /\ ret = Len(collectors_[0].v)

\* C5: melt returns the end-of-input signal if and only if the pending
\* token was already END when the invocation started; an invocation that
\* runs and writes zero cells returns something else.
C5_EndSignalDistinct ==
  pc = "returned" => (ret = EndOfInput <=> path = "early")

\* C6: every melt invocation terminates and a driver that keeps invoking
\* melt (maxLines >= 1 or unbounded) reaches the end-of-input signal.
C6_DriverReachesEnd == <>(pc = "returned" /\ path = "early")

\* C6 witness: the end-of-input signal after a bounded driver melted a
\* source of several rows in several chunks.
C6_Witness ==
  /\ pc = "returned" /\ path = "early"
  /\ chunk = {1}
  /\ Len(melted) > CellsPerLine
  /\ tokens[Len(tokens)].row >= 2

\* C7: in every output row, row = token.row + 1 and col = token.col + 1
\* for the token written at that index, both >= 1, and the row values never
\* decrease over one table and over the concatenation of the tables.
C7_RowColOneBased ==
  /\ pc = "idle" =>
       \A i \in 1..Len(out.rows) :
         LET id == chunkStart + i - 1
         IN /\ id < Len(tokens)
            /\ out.rows[i].row = tokens[id].row + 1
            /\ out.rows[i].col = tokens[id].col + 1
            /\ out.rows[i].row >= 1
            /\ out.rows[i].col >= 1
  /\ \A i \in 1..(Len(melted) - 1) : melted[i].row <= melted[i + 1].row

\* C8: for every written token the data_type cell sits at the same index as
\* its row, col and value cells, and is "missing" for a MISSING token,
\* "empty" for an EMPTY token and the type guess of the text (never
\* "missing" or "empty") for a STRING token.
C8_DataTypeDispatch ==
  /\ \A j \in DOMAIN collectors_ : Len(collectors_[j].v) = Len(collectors_[0].v)
  /\ \A i \in 1..Len(collectors_[2].v) :
       LET t  == tokens[chunkStart + i - 1]
           dt == collectors_[2].v[i]
       IN /\ collectors_[0].v[i] = t.row + 1
          /\ collectors_[1].v[i] = t.col + 1
          /\ t.type = "MISSING" => dt = "missing" /\ collectors_[3].v[i] = NA_STRING
          /\ t.type = "EMPTY" => dt = "empty" /\ collectors_[3].v[i] = ""
          /\ t.type = "STRING" =>
               /\ dt = collectorGuess(t.text)
               /\ dt \notin {"missing", "empty"}
               /\ collectors_[3].v[i] = t.text
          /\ t.type \in {"MISSING", "EMPTY", "STRING"}

\* C8 witness: an invocation has written a STRING, a MISSING and an EMPTY
\* token.
C8_Witness ==
  /\ pc = "loop"
  /\ \E a, b, c \in 1..Len(collectors_[2].v) :
       /\ tokens[chunkStart + a - 1].type = "STRING"
       /\ tokens[chunkStart + b - 1].type = "MISSING"
       /\ tokens[chunkStart + c - 1].type = "EMPTY"

\* C9: the warning set is empty at the start of every invocation of
\* meltToDataFrame, and the warnings raised during an invocation are
\* exactly those attached to the table it returns: none is attached twice,
\* none is dropped.
C9_WarningsPerTable ==
  pc = "idle" =>
    /\ warnings_ = <<>>
    /\ attached = raised
    /\ out.problems = SubSeq(raised, raisedAtCall + 1, Len(raised))

\* C9 witness: a table with warnings is returned after an earlier table
\* with warnings.
C9_Witness ==
  /\ pc = "idle"
  /\ Len(out.problems) > 0
  /\ Len(attached) > Len(out.problems)
  /\ Len(out.rows) > 0

\* C10: a melt invoked with END pending returns the end-of-input signal and
\* changes nothing (collectors, tokenizer cursor, pending token, begun
\* flag, warnings); END stays pending, so every later invocation does the
\* same.
C10_EarlyExitFrame ==
  [][/\ (pc = "idle" /\ t_.type = "EOF") =>
          /\ pc' = "returned"
          /\ ret' = EndOfInput
          /\ path' = "early"
          /\ UNCHANGED <<collectors_, pos, t_, begun_, warnings_, raised>>
     /\ t_.type = "EOF" => t_' = t_]_vars

\* C10 witness: a second invocation in a row has returned the end-of-input
\* signal, after a melt that produced rows.
C10_Witness ==
  /\ pc = "returned" /\ path = "early"
  /\ out = [rows |-> <<>>, problems |-> <<>>]
  /\ Len(melted) > 0
  /\ begun_

\* The least capacity after g growth steps from capacity n0, each step
\* multiplying by 1.1 and truncating.
RECURSIVE GeomFloor(_, _)
GeomFloor(n0, g) == IF g = 0 THEN n0 ELSE (11 * GeomFloor(n0, g - 1)) \div 10

\* C11: at every setValue call of the loop the write index cells - 1 is
\* below the capacity n (which is the capacity of every collector), also
\* right after a growth step, for every initial capacity and fraction.
C11_WriteIndexInCapacity ==
  /\ \A j \in DOMAIN collectors_ : ~collectors_[j].oob
  /\ pc = "loop" =>
       /\ \A j \in DOMAIN collectors_ : collectors_[j].n = n
       /\ cells > 0 => cells - 1 < n

\* C11 witness: a cell was written right after a growth step that left
\* exactly one cell of room.
C11_Witness ==
  /\ pc = "loop"
  /\ grows >= 1
  /\ n = cells + 1
  /\ Len(collectors_[0].v) = cells

\* C12: inside the loop the capacity never decreases, whatever fraction the
\* tokenizer reports; a capacity decreases only in the finalize step or in
\* the clear that follows the return.
C12_NoShrinkInLoop ==
  [][/\ pc = "loop" =>
          /\ n' >= n
          /\ \A j \in DOMAIN collectors_ : collectors_'[j].n >= collectors_[j].n
     /\ (\E j \in DOMAIN collectors_ : collectors_'[j].n < collectors_[j].n) =>
          pc \in {"finalize", "returned"}]_vars

\* C12 witness: the loop has grown the collectors twice.
C12_Witness ==
  /\ pc = "loop"
  /\ grows >= 2
  /\ collectors_[0].n > InitialCapacity(lines)

\* C13: whenever the loop body dispatches on the token kind the token is
\* STRING, MISSING or EMPTY: the "Invalid token" branch is never taken and
\* no END token is written.
C13_InvalidTokenUnreachable ==
  [][written' # written =>
       /\ t_.type \in {"STRING", "MISSING", "EMPTY"}
       /\ \A i \in 1..Len(collectors_'[2].v) :
            collectors_'[2].v[i] # "Invalid token"]_vars

\* C13 witness: END is the pending token inside the loop, after cells were
\* written.
C13_Witness ==
  /\ pc = "loop"
  /\ t_.type = "EOF"
  /\ cells > 0

\* C16: every growth step strictly increases the capacity, by at least the
\* factor 1.1 (truncated), so after g steps it is at least
\* GeomFloor(initial, g); with exact fractions it never exceeds 1.1 times
\* the cells of the source, which bounds g by a logarithm of
\* cells / initial capacity.
C16_GeometricGrowth ==
  [][grows' = grows + 1 =>
       /\ n' > n
       /\ 10 * n' >= 11 * n - 9
       /\ n' >= GeomFloor(InitialCapacity(lines), grows')
       /\ accurate' =>
            /\ n' <= (11 * (Len(tokens) - 1)) \div 10
            /\ GeomFloor(InitialCapacity(lines), grows') <=
                 (11 * (Len(tokens) - 1)) \div 10]_vars

\* C16 witness: a bounded invocation that was told exact fractions has
\* grown twice.
C16_Witness ==
  /\ accurate
  /\ grows = 2
  /\ lines >= 1

\* The row of a table cell no token was written to.
NARow ==
  [row |-> NA_INTEGER, col |-> NA_INTEGER, data_type |-> NA_STRING,
   value |-> NA_STRING]

\* What an invocation must write, given only what it starts from: the
\* pending token (token chunkStart), the begun flag at the call, the
\* stream and maxLines.
ResumeBase == IF begunAtCall THEN tokens[chunkStart].row ELSE 0

ResumeCells ==
  {i \in chunkStart..(Len(tokens) - 1) :
     lines < 0 \/ tokens[i].row - ResumeBase < lines}

\* The warnings such an invocation must raise: those of the collectors for
\* the cells it writes and those of the tokenizer for the tokens it fetches.
ResumeWarnings ==
  LET k == Cardinality(ResumeCells)
      fetched == (IF begunAtCall THEN chunkStart + 1 ELSE chunkStart)..(chunkStart + k)
  IN {Warning(tokens[i]) :
        i \in {c \in chunkStart..(chunkStart + k - 1) : tokens[c].warn = "col"}}
     \cup
     {Warning(tokens[i]) : i \in {f \in fetched : tokens[f].warn = "tok"}}

\* C14: the result of an invocation (table rows, warnings to attach,
\* pending token left behind) is a function of the pending token, the
\* begun flag, the remaining stream and maxLines alone, whatever the
\* earlier invocations were; between invocations the collectors and the
\* warning set carry nothing over.  (Whether the table ends in an unwritten
\* row depends, besides, on the fractions the tokenizer reports.)
C14_ResultFromResumeState ==
  /\ pc = "idle" =>
       /\ collectors_ = [j \in 0..3 |-> EmptyCollector]
       /\ warnings_ = <<>>
  /\ (pc = "returned" /\ path = "normal") =>
       LET k == Cardinality(ResumeCells)
           table == Table(collectors_)
       IN /\ Len(table) >= k
          /\ \A i \in 1..Len(table) :
               table[i] = IF i <= k THEN RowOf(tokens[chunkStart + i - 1]) ELSE NARow
          /\ t_ = tokens[chunkStart + k]
          /\ {warnings_[i] : i \in 1..Len(warnings_)} = ResumeWarnings
          /\ Len(warnings_) = Cardinality(ResumeWarnings)

\* C14 witness: a driver that varies maxLines resumed in the middle of the
\* stream and returned cells and warnings.
C14_Witness ==
  /\ pc = "returned" /\ path = "normal"
  /\ Cardinality(chunk) > 1
  /\ chunkStart > 1
  /\ cells > 0
  /\ Len(warnings_) > 0

\* C17: nextToken is never called after the tokenizer returned END, and
\* once the first invocation has begun the number of nextToken calls is the
\* number of cells written so far plus one.
C17_OneTokenLookahead ==
  /\ ~begun_ => pos = 0 /\ written = 0
  /\ begun_ => pos = written + 1
  /\ pos <= Len(tokens)
  /\ pos = Len(tokens) => t_.type = "EOF"

\* C17 witness: the stream was melted in several invocations up to END.
C17_Witness ==
  /\ Done
  /\ pos = Len(tokens)
  /\ written >= 2 * CellsPerLine
  /\ chunk = {1}

\* C18: every invocation with maxLines >= 1 that does not take the early
\* exit and whose first available token is not END writes at least one
\* cell, whatever the row of the first token of the stream.
C18_WritesAtLeastOneCell ==
  (pc = "returned" /\ path = "normal" /\ lines >= 1
     /\ tokens[chunkStart].type # "EOF") => cells >= 1

\* C19 as claimed: every warning the returned table carries (warnings_ at
\* the return) is located at a token written into that table.
C19_WarningsOfWrittenTokens ==
  pc = "returned" =>
    \A i \in 1..Len(warnings_) :
      warnings_[i].tok \in chunkStart..(chunkStart + cells - 1)

\* C19 as amended: every warning the returned table carries is located at
\* a token written into that table or at the token the invocation fetched
\* last, which it leaves pending.
C19_WarningsOfFetchedTokens ==
  pc = "returned" =>
    \A i \in 1..Len(warnings_) :
      LET w == warnings_[i]
      IN /\ w.tok \in chunkStart..(chunkStart + cells)
         /\ w.tok = chunkStart + cells => w.tok = t_.id
         /\ w.row = tokens[w.tok].row
         /\ w.col = tokens[w.tok].col

\* C19 witness: the table of a chunk carries the warning of the pending
\* token, the first token of the next chunk.
C19_Witness ==
  /\ pc = "returned"
  /\ cells > 0
  /\ t_.type # "EOF"
  /\ \E i \in 1..Len(warnings_) : warnings_[i].tok = t_.id

\* C15: initialization fetches no token (the cursor, the pending token and
\* begun_ stay as constructed); the kept columns are the indices of the
\* non-skipped collectors in strictly ascending order; the output names
\* are those of the kept columns in that order; setWarnings reaches the
\* tokenizer and every non-skipped collector and no skipped one.
C15_InitFrame ==
  /\ pos = 0 /\ ~begun_ /\ t_.id = 0 /\ written = 0
  /\ \A j \in collectorWarned : ~skip[j]
  /\ \A i \in 1..Len(keptColumns_) : ~skip[keptColumns_[i]]
  /\ \A i \in 1..(Len(keptColumns_) - 1) : keptColumns_[i] < keptColumns_[i + 1]
  /\ ipc = "constructed" =>
       /\ {keptColumns_[i] : i \in 1..Len(keptColumns_)} = {j \in Collectors : ~skip[j]}
       /\ collectorWarned = {j \in Collectors : ~skip[j]}
       /\ tokenizerWarned
       /\ Len(outNames_) = (IF colNames = <<>> THEN 0 ELSE Len(keptColumns_))
       /\ \A i \in 1..Len(outNames_) : outNames_[i] = colNames[keptColumns_[i] + 1]

\* C15 witness: a Reader constructed with names, a skipped collector
\* between two kept ones.
C15_Witness ==
  /\ ipc = "constructed"
  /\ skip[1] /\ ~skip[0] /\ ~skip[2]
  /\ Len(outNames_) >= 2

====
